---------------------------- MODULE Spec2Model ----------------------------
(***************************************************************************)
(* Model of experiment_terminator.py (class ExperimentTerminator) and of   *)
(* the click handler analyze_experiment of app.py.                         *)
(*                                                                         *)
(* Floats are modelled exactly, as rationals:                              *)
(*   - a Beta draw is an integer k in 0..Denom standing for k/Denom;       *)
(*   - a probability returned by np.mean is a pair <<num, den>>;           *)
(*   - a lift (b - a)/a is the pair <<b - a, a>>, so that den = 0 is the   *)
(*     float division by zero (inf when num > 0, nan when num = 0);        *)
(*   - a quantile is kept multiplied by QDen.                              *)
(* The process-wide generator np.random is the counter rng_pos (variates   *)
(* drawn so far); the value of a draw is a nondeterministic choice among   *)
(* the values the distribution can produce.                                *)
(***************************************************************************)
EXTENDS Integers, Sequences, FiniteSets, TLC

(* ------------------------------ bounds -------------------------------- *)
\* largest mc_samples a model instance is configured with
MaxSamples == 2
\* resolution of the grid of draws: k stands for k/Denom
Denom == 2
\* largest planned number of trials
MaxPlanned == 3
\* mc_samples of the instance behind the click handler in SpecDecision
DecisionSamples == 100
\* clicks of the button in SpecDecision
MaxCalls == 2

(* --------------------------- configuration ---------------------------- *)
\* self.alpha = 0.05, as the rational 5/100
alpha == <<5, 100>>
\* the literals .01, .99 and .5 of the click handler
TerminateLow == <<1, 100>>
TerminateHigh == <<99, 100>>
Midpoint == <<5, 10>>

VARIABLES
    mc_samples,              \* self.mc_samples
    args,                    \* the six counts of the call
    pc,                      \* position in the call
    error,                   \* the call that raised ValueError ("" if none)
    rng_pos,                 \* variates drawn from np.random so far
    posterior_samples_a,     \* get_posterior_samples: control draws
    posterior_samples_b,     \* get_posterior_samples: test draws
    posterior_lift,          \* analyze_experiment: lift per paired draw
    conversion_rate_a,
    conversion_rate_b,
    expected_lift,           \* <<kind, num, den>>
    pr_b_gt_a,               \* <<num, den>>
    potential_successes_a,   \* get_prob_reject_null: final successes, control
    potential_successes_b,   \* get_prob_reject_null: final successes, test
    i,                       \* outer iterations completed
    beta_params,             \* shapes of the inner Beta calls of the last iteration
    post_samples_b_minus_a,  \* inner differences of the last iteration
    interval,                \* np.quantile of the last iteration, times QDen
    rejection,               \* the rejection array
    pr_reject_null,          \* <<num, den>>
    exp_output,              \* value returned by analyze_experiment
    outstring,               \* conclusion shown by the click handler
    calls                    \* clicks handled so far

vars == <<mc_samples, args, pc, error, rng_pos, posterior_samples_a,
          posterior_samples_b, posterior_lift, conversion_rate_a,
          conversion_rate_b, expected_lift, pr_b_gt_a, potential_successes_a,
          potential_successes_b, i, beta_params, post_samples_b_minus_a,
          interval, rejection, pr_reject_null, exp_output, outstring, calls>>

(* ----------------------------- arithmetic ----------------------------- *)
Grid == 0..Denom
Counts == (0 - 1)..(MaxPlanned + 1)

\* x < y for rationals <<num, den>> with positive denominators
Less(x, y) == x[1] * y[2] < y[1] * x[2]

RECURSIVE SumSeq(_)
SumSeq(s) == IF s = <<>> THEN 0 ELSE Head(s) + SumSeq(Tail(s))

RECURSIVE Factorial(_)
Factorial(n) == IF n <= 1 THEN 1 ELSE n * Factorial(n - 1)

\* np.mean of an array of 0/1 values
Mean(s) == <<SumSeq(s), Len(s)>>

Zeros(n) == [k \in 1..n |-> 0]


(* ------------------------- numpy distributions ------------------------ *)
\* np.random.beta(a, b, size) raises ValueError unless a > 0 and b > 0
BetaParamsOk(shape) == shape[1] > 0 /\ shape[2] > 0

\* values a draw of np.random.beta can take, on the grid (0.0 and 1.0 included:
\* Ga / (Ga + Gb) is 0.0 when Ga = 0.0 and 1.0 when Gb = 0.0)
BetaDraws(shape) == Grid

\* np.random.binomial(n, p, size) raises ValueError when n < 0
BinomialParamsOk(n) == n >= 0

\* values a draw of np.random.binomial(n, p) can take, p = pk/Denom
BinomialDraws(n, pk) ==
    IF pk = 0 THEN {0} ELSE IF pk = Denom THEN {n} ELSE 0..n

\* the arrays of n draws, the k-th from the set draws[k]
Arrays(n, draws) == {f \in [1..n -> UNION {draws[k] : k \in 1..n}] :
                         \A k \in 1..n : f[k] \in draws[k]}

(* --------------------------- np.quantile ------------------------------ *)
CountLT(s, v) == Cardinality({j \in DOMAIN s : s[j] < v})
CountLE(s, v) == Cardinality({j \in DOMAIN s : s[j] <= v})

\* the k-th smallest element of s, k in 1..Len(s)
OrderStatistic(s, k) ==
    CHOOSE v \in {s[j] : j \in DOMAIN s} : CountLT(s, v) < k /\ k <= CountLE(s, v)

\* denominator of the two quantile levels alpha/2 and 1 - alpha/2
QDen == 2 * alpha[2]
QLow == alpha[1]
QHigh == QDen - alpha[1]

\* QDen * np.quantile(s, qnum/QDen), numpy's default linear interpolation:
\* virtual index (n - 1) * q, its floor, and the fraction gamma between
\* the two neighbouring order statistics
Quantile(s, qnum) ==
    LET n == Len(s)
        pos == (n - 1) * qnum
        prev == pos \div QDen
        gamma == pos % QDen
        lo == OrderStatistic(s, prev + 1)
        hi == OrderStatistic(s, IF prev + 2 <= n THEN prev + 2 ELSE n)
    IN  QDen * lo + (hi - lo) * gamma

\* np.quantile(post_samples_b_minus_a, [alpha / 2, 1 - alpha / 2])
Interval(diff) == <<Quantile(diff, QLow), Quantile(diff, QHigh)>>

\* the rejection test with the bounds of the interval counted as outside it
RejectsInclusive(iv) == iv[1] >= 0 \/ iv[2] <= 0

\* the rejection test looking at the lower end of the interval only
RejectsOneSided(iv) == iv[1] > 0

\* if (interval[0] > 0 or interval[1] < 0)
Rejects(iv) == iv[1] > 0 \/ iv[2] < 0

(* ------------------------ ExperimentTerminator ------------------------ *)
\* the posterior Beta with the smoothing of the inner Beta
PosteriorShapeSmoothed(completed, successes) ==
    <<successes + 1, completed - successes + 1>>

\* shapes of the Beta of get_posterior_samples
PosteriorShape(completed, successes) == <<successes, completed - successes>>

\* the inner Beta with the shapes of the posterior Beta, no smoothing
InnerShapeUnsmoothed(planned, final) == <<final, planned - final>>

\* shapes of the Beta inside the loop of get_prob_reject_null
InnerShape(planned, final) == <<final + 1, planned - final + 1>>

\* the binomial over all planned trials, the completed ones not taken off
RemainingWithoutCompleted(planned, completed) == planned

\* number of trials of the binomial of get_prob_reject_null
Remaining(planned, completed) == planned - completed

\* (posterior_samples[1] - posterior_samples[0]) / posterior_samples[0]
Lift(a, b) == <<b - a, a>>

LiftIsNaN(l) == l[2] = 0 /\ l[1] = 0
LiftIsInf(l) == l[2] = 0 /\ l[1] # 0

\* posterior_lift >= 0 on floats: nan >= 0 is False, inf >= 0 is True
LiftGE0(l) == IF l[2] = 0 THEN l[1] > 0 ELSE l[1] >= 0

\* common denominator of the finite lifts
LiftScale == Factorial(Denom)

\* np.mean(posterior_lift): nan if a nan is summed, else inf if an inf is
MeanLift(l) ==
    IF \E k \in DOMAIN l : LiftIsNaN(l[k]) THEN <<"nan", 0, 0>>
    ELSE IF \E k \in DOMAIN l : LiftIsInf(l[k]) THEN <<"inf", 0, 0>>
    ELSE <<"finite",
           SumSeq([k \in DOMAIN l |-> l[k][1] * (LiftScale \div l[k][2])]),
           LiftScale * Len(l)>>

\* np.sum(posterior_lift >= 0) in place of the mean
SumLiftGE0(l) == <<SumSeq([k \in DOMAIN l |-> IF LiftGE0(l[k]) THEN 1 ELSE 0]), 1>>

\* np.mean(posterior_lift >= 0)
ProbLiftGE0(l) == Mean([k \in DOMAIN l |-> IF LiftGE0(l[k]) THEN 1 ELSE 0])

(* ------------------------------ app.py -------------------------------- *)
\* the conclusion with the upper threshold compared by >= instead of >
ConclusionInclusive(p, q) ==
    IF Less(p, TerminateLow) \/ ~Less(p, TerminateHigh)
    THEN IF Less(p, TerminateLow)
         THEN "Experiment can be terminated. No difference between experiment and control will be found."
         ELSE IF Less(Midpoint, q)
              THEN "Experiment can be terminated. Test is superior to control."
              ELSE "Experiment can be terminated. Control is superior to test."
    ELSE "Experiment should not be terminated."

\* the conclusion of the click handler, from exp_output[4] and exp_output[3]
Conclusion(p, q) ==
    IF Less(p, TerminateLow) \/ Less(TerminateHigh, p)
    THEN IF Less(p, TerminateLow)
         THEN "Experiment can be terminated. No difference between experiment and control will be found."
         ELSE IF Less(Midpoint, q)
              THEN "Experiment can be terminated. Test is superior to control."
              ELSE "Experiment can be terminated. Control is superior to test."
    ELSE "Experiment should not be terminated."

(* ------------------------------ states -------------------------------- *)
Arms == [planned : 1..MaxPlanned, completed : Counts, successes : Counts]

MakeArgs(a, b) ==
    [planned_trials_a |-> a.planned, planned_trials_b |-> b.planned,
     completed_trials_a |-> a.completed, completed_trials_b |-> b.completed,
     successes_a |-> a.successes, successes_b |-> b.successes]

\* everything a call has not computed yet
Blank ==
    /\ error = ""
    /\ rng_pos = 0
    /\ posterior_samples_a = <<>>
    /\ posterior_samples_b = <<>>
    /\ posterior_lift = <<>>
    /\ conversion_rate_a = <<>>
    /\ conversion_rate_b = <<>>
    /\ expected_lift = <<>>
    /\ pr_b_gt_a = <<>>
    /\ potential_successes_a = <<>>
    /\ potential_successes_b = <<>>
    /\ i = 0
    /\ beta_params = <<>>
    /\ post_samples_b_minus_a = <<>>
    /\ interval = <<>>
    /\ rejection = <<>>
    /\ pr_reject_null = <<>>
    /\ exp_output = <<>>
    /\ outstring = ""
    /\ calls = 0

\* et = ExperimentTerminator(); et.analyze_experiment(...) is called
Init ==
    /\ mc_samples \in 1..MaxSamples
    /\ \E a \in Arms, b \in Arms : args = MakeArgs(a, b)
    /\ pc = "start"
    /\ Blank

Raise(where) ==
    /\ pc' = "raised"
    /\ error' = where

\* get_posterior_samples, called from analyze_experiment
GetPosteriorSamples ==
    /\ pc = "start"
    /\ LET sha == PosteriorShape(args.completed_trials_a, args.successes_a)
           shb == PosteriorShape(args.completed_trials_b, args.successes_b)
           da == [k \in 1..mc_samples |-> BetaDraws(sha)]
           db == [k \in 1..mc_samples |-> BetaDraws(shb)]
       IN  IF ~BetaParamsOk(sha)
           THEN /\ Raise("posterior_samples_a")
                /\ UNCHANGED <<rng_pos, posterior_samples_a, posterior_samples_b>>
           ELSE \E sa \in Arrays(mc_samples, da) :
                /\ posterior_samples_a' = sa
                /\ IF ~BetaParamsOk(shb)
                   THEN /\ Raise("posterior_samples_b")
                        /\ rng_pos' = rng_pos + mc_samples
                        /\ UNCHANGED posterior_samples_b
                   ELSE \E sb \in Arrays(mc_samples, db) :
                        /\ posterior_samples_b' = sb
                        /\ rng_pos' = rng_pos + 2 * mc_samples
                        /\ pc' = "sampled"
                        /\ UNCHANGED error
    /\ UNCHANGED <<mc_samples, args, posterior_lift, conversion_rate_a,
                   conversion_rate_b, expected_lift, pr_b_gt_a,
                   potential_successes_a, potential_successes_b, i, beta_params,
                   post_samples_b_minus_a, interval, rejection, pr_reject_null,
                   exp_output, outstring, calls>>

\* analyze_experiment: the lift and the summary measures taken from it
EstimateLift ==
    /\ pc = "sampled"
    /\ LET l == [k \in 1..mc_samples |->
                    Lift(posterior_samples_a[k], posterior_samples_b[k])]
       IN  /\ posterior_lift' = l
           /\ expected_lift' = MeanLift(l)
           /\ pr_b_gt_a' = ProbLiftGE0(l)
    /\ conversion_rate_a' = <<args.successes_a, args.completed_trials_a>>
    /\ conversion_rate_b' = <<args.successes_b, args.completed_trials_b>>
    /\ pc' = "predict"
    /\ UNCHANGED <<mc_samples, args, error, rng_pos, posterior_samples_a,
                   posterior_samples_b, potential_successes_a,
                   potential_successes_b, i, beta_params,
                   post_samples_b_minus_a, interval, rejection, pr_reject_null,
                   exp_output, outstring, calls>>

\* get_prob_reject_null up to the loop: the two binomial arrays
DrawPotentialSuccesses ==
    /\ pc = "predict"
    /\ LET na == Remaining(args.planned_trials_a, args.completed_trials_a)
           nb == Remaining(args.planned_trials_b, args.completed_trials_b)
           da == [k \in 1..mc_samples |-> BinomialDraws(na, posterior_samples_a[k])]
           db == [k \in 1..mc_samples |-> BinomialDraws(nb, posterior_samples_b[k])]
       IN  IF ~BinomialParamsOk(na)
           THEN /\ Raise("potential_successes_a")
                /\ UNCHANGED <<rng_pos, potential_successes_a,
                               potential_successes_b, rejection>>
           ELSE \E xa \in Arrays(mc_samples, da) :
                /\ potential_successes_a' =
                       [k \in 1..mc_samples |-> xa[k] + args.successes_a]
                /\ IF ~BinomialParamsOk(nb)
                   THEN /\ Raise("potential_successes_b")
                        /\ rng_pos' = rng_pos + mc_samples
                        /\ UNCHANGED <<potential_successes_b, rejection>>
                   ELSE \E xb \in Arrays(mc_samples, db) :
                        /\ potential_successes_b' =
                               [k \in 1..mc_samples |-> xb[k] + args.successes_b]
                        /\ rng_pos' = rng_pos + 2 * mc_samples
                        /\ rejection' = Zeros(mc_samples)
                        /\ pc' = "loop"
                        /\ UNCHANGED error
    /\ UNCHANGED <<mc_samples, args, posterior_samples_a, posterior_samples_b,
                   posterior_lift, conversion_rate_a, conversion_rate_b,
                   expected_lift, pr_b_gt_a, i, beta_params,
                   post_samples_b_minus_a, interval, pr_reject_null,
                   exp_output, outstring, calls>>

\* one pass of the loop body of get_prob_reject_null
OuterIteration ==
    /\ pc = "loop"
    /\ i < mc_samples
    /\ LET k == i + 1
           sha == InnerShape(args.planned_trials_a, potential_successes_a[k])
           shb == InnerShape(args.planned_trials_b, potential_successes_b[k])
           da == [j \in 1..mc_samples |-> BetaDraws(sha)]
           db == [j \in 1..mc_samples |-> BetaDraws(shb)]
       IN  IF ~BetaParamsOk(sha)
           THEN /\ Raise("post_samples_a")
                /\ UNCHANGED <<rng_pos, i, beta_params, post_samples_b_minus_a,
                               interval, rejection>>
           ELSE IF ~BetaParamsOk(shb)
           THEN /\ Raise("post_samples_b")
                /\ rng_pos' = rng_pos + mc_samples
                /\ UNCHANGED <<i, beta_params, post_samples_b_minus_a,
                               interval, rejection>>
           ELSE \E sa \in Arrays(mc_samples, da), sb \in Arrays(mc_samples, db) :
                LET diff == [j \in 1..mc_samples |-> sb[j] - sa[j]]
                    iv == Interval(diff)
                IN  /\ beta_params' = <<sha, shb>>
                    /\ post_samples_b_minus_a' = diff
                    /\ interval' = iv
                    /\ rejection' =
                           [rejection EXCEPT ![k] = IF Rejects(iv) THEN 1 ELSE 0]
                    /\ rng_pos' = rng_pos + 2 * mc_samples
                    /\ i' = k
                    /\ UNCHANGED <<pc, error>>
    /\ UNCHANGED <<mc_samples, args, posterior_samples_a, posterior_samples_b,
                   posterior_lift, conversion_rate_a, conversion_rate_b,
                   expected_lift, pr_b_gt_a, potential_successes_a,
                   potential_successes_b, pr_reject_null, exp_output,
                   outstring, calls>>

\* return np.mean(rejection)
ReturnProbRejectNull ==
    /\ pc = "loop"
    /\ i = mc_samples
    /\ pr_reject_null' = Mean(rejection)
    /\ pc' = "predicted"
    /\ UNCHANGED <<mc_samples, args, error, rng_pos, posterior_samples_a,
                   posterior_samples_b, posterior_lift, conversion_rate_a,
                   conversion_rate_b, expected_lift, pr_b_gt_a,
                   potential_successes_a, potential_successes_b, i, beta_params,
                   post_samples_b_minus_a, interval, rejection, exp_output,
                   outstring, calls>>

\* the return statement of analyze_experiment
ReturnAnalysis ==
    /\ pc = "predicted"
    /\ exp_output' = <<conversion_rate_a, conversion_rate_b, expected_lift,
                       pr_b_gt_a, pr_reject_null, posterior_lift>>
    /\ pc' = "returned"
    /\ UNCHANGED <<mc_samples, args, error, rng_pos, posterior_samples_a,
                   posterior_samples_b, posterior_lift, conversion_rate_a,
                   conversion_rate_b, expected_lift, pr_b_gt_a,
                   potential_successes_a, potential_successes_b, i, beta_params,
                   post_samples_b_minus_a, interval, rejection, pr_reject_null,
                   outstring, calls>>

\* the click handler of app.py after et.analyze_experiment has returned
AppDisplay ==
    /\ pc = "returned"
    /\ outstring' = Conclusion(exp_output[5], exp_output[4])
    /\ pc' = "displayed"
    /\ UNCHANGED <<mc_samples, args, error, rng_pos, posterior_samples_a,
                   posterior_samples_b, posterior_lift, conversion_rate_a,
                   conversion_rate_b, expected_lift, pr_b_gt_a,
                   potential_successes_a, potential_successes_b, i, beta_params,
                   post_samples_b_minus_a, interval, rejection, pr_reject_null,
                   exp_output, calls>>

Next ==
    \/ GetPosteriorSamples
    \/ EstimateLift
    \/ DrawPotentialSuccesses
    \/ OuterIteration
    \/ ReturnProbRejectNull
    \/ ReturnAnalysis
    \/ AppDisplay

Spec == Init /\ [][Next]_vars

(* ------------- get_prob_reject_null called on its own ----------------- *)
\* the arms of a direct call: the largest plan, about to complete or over it
DirectArms == {a \in Arms : a.planned = MaxPlanned /\ a.completed >= MaxPlanned - 1}

\* a caller's array of posterior draws, the same draw at every index
Constant(n, g) == [k \in 1..n |-> g]

\* et.get_prob_reject_null(...) is called with the caller's own arrays
InitPredict ==
    /\ mc_samples \in 1..MaxSamples
    /\ \E a \in DirectArms, b \in DirectArms : args = MakeArgs(a, b)
    /\ pc = "predict"
    /\ error = ""
    /\ rng_pos = 0
    /\ \E g \in Grid : posterior_samples_a = Constant(mc_samples, g)
    /\ \E g \in Grid : posterior_samples_b = Constant(mc_samples, g)
    /\ posterior_lift = <<>>
    /\ conversion_rate_a = <<>>
    /\ conversion_rate_b = <<>>
    /\ expected_lift = <<>>
    /\ pr_b_gt_a = <<>>
    /\ potential_successes_a = <<>>
    /\ potential_successes_b = <<>>
    /\ i = 0
    /\ beta_params = <<>>
    /\ post_samples_b_minus_a = <<>>
    /\ interval = <<>>
    /\ rejection = <<>>
    /\ pr_reject_null = <<>>
    /\ exp_output = <<>>
    /\ outstring = ""
    /\ calls = 0

NextPredict ==
    \/ DrawPotentialSuccesses
    \/ OuterIteration
    \/ ReturnProbRejectNull

SpecPredict == InitPredict /\ [][NextPredict]_vars

(* ----------------- the click handler, click after click --------------- *)
\* the page as first rendered: nothing analysed, nothing shown
InitDecision ==
    /\ mc_samples = DecisionSamples
    /\ args = MakeArgs([planned |-> MaxPlanned, completed |-> MaxPlanned, successes |-> 1],
                       [planned |-> MaxPlanned, completed |-> MaxPlanned, successes |-> 1])
    /\ pc = "start"
    /\ Blank

\* exp_output = et.analyze_experiment(...): the two probabilities are means
\* of mc_samples 0/1 values
AppEngineReturns ==
    /\ pc = "start"
    /\ \E p \in 0..mc_samples, q \in 0..mc_samples :
           exp_output' = <<<<args.successes_a, args.completed_trials_a>>,
                           <<args.successes_b, args.completed_trials_b>>,
                           <<"finite", 0, 1>>,
                           <<q, mc_samples>>,
                           <<p, mc_samples>>,
                           <<>> >>
    /\ pc' = "returned"
    /\ UNCHANGED <<mc_samples, args, error, rng_pos, posterior_samples_a,
                   posterior_samples_b, posterior_lift, conversion_rate_a,
                   conversion_rate_b, expected_lift, pr_b_gt_a,
                   potential_successes_a, potential_successes_b, i, beta_params,
                   post_samples_b_minus_a, interval, rejection, pr_reject_null,
                   outstring, calls>>

\* the button is clicked again: the handler's locals are gone, the page still
\* shows the conclusion of the click before
AppClick ==
    /\ pc = "displayed"
    /\ calls < MaxCalls
    /\ calls' = calls + 1
    /\ exp_output' = <<>>
    /\ pc' = "start"
    /\ UNCHANGED <<mc_samples, args, error, rng_pos, posterior_samples_a,
                   posterior_samples_b, posterior_lift, conversion_rate_a,
                   conversion_rate_b, expected_lift, pr_b_gt_a,
                   potential_successes_a, potential_successes_b, i, beta_params,
                   post_samples_b_minus_a, interval, rejection, pr_reject_null,
                   outstring>>

NextDecision ==
    \/ AppEngineReturns
    \/ AppDisplay
    \/ AppClick

SpecDecision == InitDecision /\ [][NextDecision]_vars

(* ------------------------------ claims -------------------------------- *)
\* an ArmObservation that satisfies its invariants
ValidArm(planned, completed, successes) ==
    /\ planned >= 1
    /\ 0 <= completed /\ completed <= planned
    /\ 0 <= successes /\ successes <= completed

ValidArgs ==
    /\ ValidArm(args.planned_trials_a, args.completed_trials_a, args.successes_a)
    /\ ValidArm(args.planned_trials_b, args.completed_trials_b, args.successes_b)

\* an arm whose unsmoothed Beta has a shape parameter of 0
DegenerateArm(completed, successes) == successes = 0 \/ successes = completed

DegenerateArgs ==
    \/ DegenerateArm(args.completed_trials_a, args.successes_a)
    \/ DegenerateArm(args.completed_trials_b, args.successes_b)

\* a probability <<num, den>> in [0, 1]
InUnit(x) == x[2] > 0 /\ 0 <= x[1] /\ x[1] <= x[2]

\* C1: the conclusion shown is the class of (p, q) and of nothing else: no
\* difference when p < 0.01; test superior when p > 0.99 and q > 0.5; control
\* superior when p > 0.99 and q <= 0.5; do not terminate when
\* 0.01 <= p <= 0.99, whatever was shown by the click before.
C1_ConclusionIsClassOfPQ ==
    pc = "displayed" =>
        LET p == exp_output[5]
            q == exp_output[4]
        IN  /\ 100 * p[1] < p[2] =>
                outstring = "Experiment can be terminated. No difference between experiment and control will be found."
            /\ (100 * p[1] > 99 * p[2] /\ 2 * q[1] > q[2]) =>
                outstring = "Experiment can be terminated. Test is superior to control."
            /\ (100 * p[1] > 99 * p[2] /\ 2 * q[1] <= q[2]) =>
                outstring = "Experiment can be terminated. Control is superior to test."
            /\ (100 * p[1] >= p[2] /\ 100 * p[1] <= 99 * p[2]) =>
                outstring = "Experiment should not be terminated."

\* C1 witness: a second click whose p is exactly 0.99 is shown as not terminable
C1_Witness ==
    /\ pc = "displayed"
    /\ calls = 1
    /\ 100 * exp_output[5][1] = 99 * exp_output[5][2]
    /\ outstring = "Experiment should not be terminated."

\* C2: with invalid counts in either arm nothing is drawn and nothing is
\* computed: the generator is not advanced, there is no posterior sample, no
\* lift, no binomial draw and no result.
C2_InvalidCountsRejectedBeforeSampling ==
    ~ValidArgs =>
        /\ rng_pos = 0
        /\ posterior_samples_a = <<>>
        /\ posterior_samples_b = <<>>
        /\ posterior_lift = <<>>
        /\ potential_successes_a = <<>>
        /\ potential_successes_b = <<>>
        /\ exp_output = <<>>

\* C3: with successes = 0 or successes = completed in an arm,
\* get_posterior_samples raises and never returns a sample set, and
\* analyze_experiment returns no result.
C3_DegenerateArmRaises ==
    DegenerateArgs =>
        /\ pc \in {"start", "raised"}
        /\ pc = "raised" => error \in {"posterior_samples_a", "posterior_samples_b"}
        /\ posterior_samples_b = <<>>
        /\ posterior_lift = <<>>
        /\ exp_output = <<>>

\* C3 witness: the control arm is fine, the test arm has no success, and the
\* call has raised in the test arm's Beta
C3_Witness ==
    /\ ~DegenerateArm(args.completed_trials_a, args.successes_a)
    /\ args.successes_b = 0
    /\ args.completed_trials_b > 0
    /\ pc = "raised"
    /\ error = "posterior_samples_b"

\* C4 as stated: for all valid inputs analyze_experiment returns (it does not
\* raise) and both probabilities lie in [0, 1].
C4_ValidInputsReturnProbabilities ==
    ValidArgs =>
        /\ pc # "raised"
        /\ exp_output # <<>> => InUnit(exp_output[4]) /\ InUnit(exp_output[5])

\* C4 amended: for all valid inputs with 0 < successes < completed in both
\* arms analyze_experiment does not raise and both probabilities lie in
\* [0, 1] as soon as they are computed; for valid inputs with successes = 0
\* or successes = completed in an arm no result is returned.
C4_NondegenerateInputsReturnProbabilities ==
    /\ (ValidArgs /\ ~DegenerateArgs) =>
           /\ pc # "raised"
           /\ pr_b_gt_a # <<>> => InUnit(pr_b_gt_a)
           /\ pr_reject_null # <<>> => InUnit(pr_reject_null)
           /\ exp_output # <<>> => InUnit(exp_output[4]) /\ InUnit(exp_output[5])
    /\ (ValidArgs /\ DegenerateArgs) => exp_output = <<>>

\* C4 witness: a valid call with trials remaining has returned, with a
\* probability of significance strictly between 0 and 1
C4_Witness ==
    /\ ValidArgs /\ ~DegenerateArgs
    /\ args.completed_trials_a < args.planned_trials_a
    /\ pc = "returned"
    /\ 0 < exp_output[5][1] /\ exp_output[5][1] < exp_output[5][2]

\* C5: a control draw of exactly 0 never puts an infinite or undefined lift
\* into posterior_lift or into the mean taken from it.
C5_ZeroControlDrawGuarded ==
    posterior_lift # <<>> =>
        /\ \A k \in DOMAIN posterior_lift :
               ~LiftIsInf(posterior_lift[k]) /\ ~LiftIsNaN(posterior_lift[k])
        /\ expected_lift[1] = "finite"

\* C6: when completed = planned in both arms every final success count is
\* the observed one, and every outer scenario draws from the same pair
\* Beta(successes + 1, planned - successes + 1).
C6_NoRemainingIsPassthrough ==
    (/\ args.completed_trials_a = args.planned_trials_a
     /\ args.completed_trials_b = args.planned_trials_b) =>
        /\ \A k \in DOMAIN potential_successes_a :
               potential_successes_a[k] = args.successes_a
        /\ \A k \in DOMAIN potential_successes_b :
               potential_successes_b[k] = args.successes_b
        /\ beta_params # <<>> =>
               beta_params =
                   <<<<args.successes_a + 1,
                       args.planned_trials_a - args.successes_a + 1>>,
                     <<args.successes_b + 1,
                       args.planned_trials_b - args.successes_b + 1>>>>

\* C6 witness: no trials remain, the posterior draws are not all 0 or 1, and
\* two outer scenarios have run
C6_Witness ==
    /\ args.completed_trials_a = args.planned_trials_a
    /\ args.completed_trials_b = args.planned_trials_b
    /\ pc = "loop"
    /\ i = 2
    /\ \E k \in DOMAIN posterior_samples_a :
           0 < posterior_samples_a[k] /\ posterior_samples_a[k] < Denom

\* the lift of the call with the two arms, and their draws, exchanged
SwappedLift ==
    [k \in DOMAIN posterior_lift |->
        Lift(posterior_samples_b[k], posterior_samples_a[k])]

\* the inner differences of the call with the two arms exchanged
SwappedDifferences ==
    [j \in DOMAIN post_samples_b_minus_a |-> 0 - post_samples_b_minus_a[j]]

\* the last outer scenario rejects after the exchange exactly when it did before
SwapKeepsRejection ==
    post_samples_b_minus_a # <<>> =>
        (Rejects(Interval(SwappedDifferences)) <=> rejection[i] = 1)

NoTiedDraws ==
    \A k \in DOMAIN posterior_lift : posterior_samples_a[k] # posterior_samples_b[k]

\* C7 as stated: exchanging control and test turns pr_b_gt_a into
\* 1 - pr_b_gt_a and leaves every outer scenario's rejection as it was.
C7_SwapFlipsProbability ==
    /\ posterior_lift # <<>> =>
           ProbLiftGE0(SwappedLift)[1] = mc_samples - pr_b_gt_a[1]
    /\ SwapKeepsRejection

\* C7 amended: exchanging control and test turns pr_b_gt_a into
\* 1 - pr_b_gt_a provided no paired posterior draws are equal, and always
\* leaves every outer scenario's rejection as it was.
C7_SwapFlipsProbabilityWithoutTies ==
    /\ (posterior_lift # <<>> /\ NoTiedDraws) =>
           ProbLiftGE0(SwappedLift)[1] = mc_samples - pr_b_gt_a[1]
    /\ SwapKeepsRejection

\* C7 witness: no tie among the posterior draws, the test arm ahead in one
\* pair and behind in the other, and a last outer scenario that rejects
C7_Witness ==
    /\ mc_samples = 2
    /\ NoTiedDraws
    /\ pr_b_gt_a = <<1, 2>>
    /\ i = 2
    /\ rejection[i] = 1

\* C8: for valid inputs every final success count lies in
\* [successes, planned], both shapes of each inner Beta are >= 1 and the loop
\* never raises; whatever the inputs, no outer scenario completes with a
\* count outside [0, planned], and the counts are used as drawn.
C8_FinalSuccessesInRange ==
    /\ ValidArgs =>
           /\ \A k \in DOMAIN potential_successes_a :
                  /\ args.successes_a <= potential_successes_a[k]
                  /\ potential_successes_a[k] <= args.planned_trials_a
           /\ \A k \in DOMAIN potential_successes_b :
                  /\ args.successes_b <= potential_successes_b[k]
                  /\ potential_successes_b[k] <= args.planned_trials_b
           /\ beta_params # <<>> =>
                  \A arm \in 1..2, shape \in 1..2 : beta_params[arm][shape] >= 1
           /\ error \notin {"post_samples_a", "post_samples_b"}
    /\ \A k \in 1..i :
           /\ 0 <= potential_successes_a[k]
           /\ potential_successes_a[k] <= args.planned_trials_a
           /\ 0 <= potential_successes_b[k]
           /\ potential_successes_b[k] <= args.planned_trials_b
    /\ beta_params # <<>> =>
           beta_params =
               <<<<potential_successes_a[i] + 1,
                   args.planned_trials_a - potential_successes_a[i] + 1>>,
                 <<potential_successes_b[i] + 1,
                   args.planned_trials_b - potential_successes_b[i] + 1>>>>

\* C8 witness: valid inputs with a trial remaining, a control scenario in
\* which that trial succeeds, and the loop run to its end
C8_Witness ==
    /\ ValidArgs
    /\ args.completed_trials_a < args.planned_trials_a
    /\ pc = "predicted"
    /\ \E k \in DOMAIN potential_successes_a :
           potential_successes_a[k] = args.planned_trials_a

\* C9: exactly mc_samples outer scenarios run; scenario i is marked if and
\* only if the quantile interval of its inner differences has its lower end
\* above 0 or its upper end below 0; the value returned is the number of
\* marked scenarios over mc_samples.
C9_RejectionFraction ==
    /\ post_samples_b_minus_a # <<>> =>
           /\ interval = Interval(post_samples_b_minus_a)
           /\ rejection[i] \in {0, 1}
           /\ rejection[i] = 1 <=> (interval[1] > 0 \/ interval[2] < 0)
    /\ rejection # <<>> =>
           /\ Len(rejection) = mc_samples
           /\ \A k \in (i + 1)..mc_samples : rejection[k] = 0
    /\ pr_reject_null # <<>> =>
           /\ i = mc_samples
           /\ rng_pos = 4 * mc_samples + mc_samples * 2 * mc_samples
           /\ pr_reject_null =
                  <<Cardinality({k \in 1..mc_samples : rejection[k] = 1}), mc_samples>>

\* C9 witness: of two scenarios the first was marked and the second, whose
\* interval has its lower end at exactly 0, was not; one half is returned
C9_Witness ==
    /\ pc = "predicted"
    /\ rejection = <<1, 0>>
    /\ interval[1] = 0
    /\ pr_reject_null = <<1, 2>>

\* C10: an outer scenario shares no mutable state with the others: a pass of
\* the loop changes its own entry of rejection and nothing the other passes
\* read or write.
C10_IterationsShareOnlyTheReduction ==
    [][(pc = "loop" /\ pc' = "loop" /\ i' = i + 1) =>
           /\ rng_pos' = rng_pos
           /\ potential_successes_a' = potential_successes_a
           /\ potential_successes_b' = potential_successes_b
           /\ \A k \in DOMAIN rejection : k # i' => rejection'[k] = rejection[k]]_vars

============================================================================
